---- MODULE Spec2Model ----
(***************************************************************************)
(* Model of the chunk-based memory pool of src/src/MemoryPool/MemoryPool.cpp *)
(* MemoryPool (one fixed buffer, a position-ordered free list and a        *)
(* size-ordered set of iterators into it) and MultiPool (a growing list of *)
(* MemoryPools plus a routing map from address to pool).                   *)
(*                                                                         *)
(* A std::list iterator is modelled by the position of its node in the     *)
(* list; list insert/erase renumber the positions held in freeSetBySize,   *)
(* which is what iterator stability of std::list amounts to.  A std::set   *)
(* is modelled by the sequence of its elements in tree (comparator) order. *)
(* freeList and MultiPool::pools are node-based lists (the code keeps       *)
(* iterators into both across insertions), so an iterator kept in          *)
(* freeSetBySize or in the routing map stays valid until its node is       *)
(* erased; the routing map is modelled as address -> position in pools.    *)
(* Chunk counts stay far below 2^32, so the unsigned and size_t arithmetic *)
(* of the getters and of the growth rule never wraps and is plain integer  *)
(* arithmetic here.                                                        *)
(*                                                                         *)
(* Spec drives a MultiPool; SpecPool drives one MemoryPool directly, where *)
(* allocate may return null; SpecPoolPos is SpecPool with requests of at   *)
(* least one byte.                                                         *)
(***************************************************************************)
EXTENDS Integers, Sequences, FiniteSets, Bags, TLC

(* ------------------------------ bounds -------------------------------- *)
MaxInitialChunks == 2      \* MultiPool(initialChunks): initialChunks in 1..MaxInitialChunks
MaxPoolChunks == 4         \* MemoryPool(numChunks) used on its own: numChunks in 1..MaxPoolChunks
MaxReqChunks == 2          \* request sizes cover 0..MaxReqChunks chunks
MaxPools == 3              \* growth is not explored beyond this many pools
MaxLive == 3               \* at most this many outstanding allocate calls
MaxOps == 9                \* a MultiPool run is explored for this many calls
MaxHppChunks == 6          \* chunks the header revision's pool is constructed with
MaxHppExtent == 7          \* the header revision's pool is not resized beyond this
MaxHppOps == 5             \* a run of the header revision is explored for this many calls

(* ----------------------------- constants ------------------------------ *)
DEFAULT_CHUNK_SIZE == 128
nullptr == 0
HeapBase == 128            \* address of the first backing buffer (non-null)

VARIABLES pools,        \* MultiPool::pools, a sequence of MemoryPool records
          allocations,  \* MultiPool::allocations, address -> index into pools
          live,         \* ghost: bag of <<address, n>> of allocate calls not yet deallocated
          lastOp,       \* ghost: the last public call, its argument and its result
          aborted,      \* an assert of the code failed; the program has terminated
          ops           \* ghost: number of MultiPool calls made so far

vars == <<pools, allocations, live, lastOp, aborted, ops>>

(* --------------------------- small helpers ---------------------------- *)
Put(f, k, v) == [x \in DOMAIN f \cup {k} |-> IF x = k THEN v ELSE f[x]]
Drop(f, k) == [x \in DOMAIN f \ {k} |-> f[x]]
RemoveAt(s, i) == SubSeq(s, 1, i - 1) \o SubSeq(s, i + 1, Len(s))
InsertAt(s, i, v) == SubSeq(s, 1, i - 1) \o <<v>> \o SubSeq(s, i, Len(s))
RangeSize(r) == r[2] - r[1]
PairLess(l, r) == l[1] < r[1] \/ (l[1] = r[1] /\ l[2] < r[2])
Chunks(r) == r[1]..(r[2] - 1)

RECURSIVE SumSeq(_)
SumSeq(s) == IF s = <<>> THEN 0 ELSE Head(s) + SumSeq(Tail(s))

RECURSIVE SumOver(_, _)
SumOver(f, S) == IF S = {} THEN 0
                 ELSE LET x == CHOOSE y \in S : TRUE IN f[x] + SumOver(f, S \ {x})

RECURSIVE MaxSeq(_)
MaxSeq(s) == IF s = <<>> THEN 0
             ELSE LET m == MaxSeq(Tail(s)) IN IF Head(s) > m THEN Head(s) ELSE m

(* ----------------------- CompareFreeIndices --------------------------- *)
\* mutant: the comparator without its tie-break on the pair
CompareFreeIndicesSizeOnly(lhs, rhs) == RangeSize(lhs) < RangeSize(rhs)

\* operator()(iterator, iterator) and the IndexPair overloads: by size, then by pair
CompareFreeIndices(lhs, rhs) ==
    LET lhsSize == RangeSize(lhs)
        rhsSize == RangeSize(rhs)
    IN IF lhsSize = rhsSize THEN PairLess(lhs, rhs) ELSE lhsSize < rhsSize

\* mutant: a range of exactly the requested size counts as too small
CompareFreeIndicesSizeInclusive(lhs, rhs) == RangeSize(lhs) <= rhs

\* operator()(iterator, size_t): used by lower_bound(requestedChunks)
CompareFreeIndicesSize(lhs, rhs) == RangeSize(lhs) < rhs

(* --------------------- std::set<iterator> operations ------------------- *)
\* index of the first element that is not less than the key, Len+1 for end()
FirstNotLess(freeList, freeSetBySize, key) ==
    LET hits == {i \in 1..Len(freeSetBySize) :
                    ~CompareFreeIndices(freeList[freeSetBySize[i]], key)}
    IN IF hits = {} THEN Len(freeSetBySize) + 1
       ELSE CHOOSE i \in hits : \A j \in hits : i <= j

\* mutant of lower_bound: std::set::upper_bound, the first element greater than the key
upper_bound(freeList, freeSetBySize, requestedChunks) ==
    LET hits == {i \in 1..Len(freeSetBySize) :
                    RangeSize(freeList[freeSetBySize[i]]) > requestedChunks}
    IN IF hits = {} THEN Len(freeSetBySize) + 1
       ELSE CHOOSE i \in hits : \A j \in hits : i <= j

\* freeSetBySize.lower_bound(requestedChunks): the first element not less than the key
lower_bound(freeList, freeSetBySize, requestedChunks) ==
    LET hits == {i \in 1..Len(freeSetBySize) :
                    ~CompareFreeIndicesSize(freeList[freeSetBySize[i]], requestedChunks)}
    IN IF hits = {} THEN Len(freeSetBySize) + 1
       ELSE CHOOSE i \in hits : \A j \in hits : i <= j

\* freeSetBySize.find(IndexPair): the element equivalent to the pair, or end()
SetFind(freeList, freeSetBySize, pair) ==
    LET i == FirstNotLess(freeList, freeSetBySize, pair)
    IN IF i <= Len(freeSetBySize)
          /\ ~CompareFreeIndices(pair, freeList[freeSetBySize[i]])
       THEN i ELSE Len(freeSetBySize) + 1

\* freeSetBySize.insert(iterator): unique keys, an equivalent element blocks the insert
SetInsert(freeList, freeSetBySize, itr) ==
    LET i == FirstNotLess(freeList, freeSetBySize, freeList[itr])
    IN IF i <= Len(freeSetBySize)
          /\ ~CompareFreeIndices(freeList[itr], freeList[freeSetBySize[i]])
       THEN freeSetBySize
       ELSE InsertAt(freeSetBySize, i, itr)

(* ------------------- std::list iterator renumbering -------------------- *)
\* iterators at or after an inserted node now sit one position further
ShiftInsert(freeSetBySize, pos) ==
    [i \in 1..Len(freeSetBySize) |->
        IF freeSetBySize[i] >= pos THEN freeSetBySize[i] + 1 ELSE freeSetBySize[i]]

\* iterators after an erased node move up; an iterator to the erased node dangles (0)
ShiftErase(freeSetBySize, pos) ==
    [i \in 1..Len(freeSetBySize) |->
        IF freeSetBySize[i] > pos THEN freeSetBySize[i] - 1
        ELSE IF freeSetBySize[i] = pos THEN 0 ELSE freeSetBySize[i]]

(* ----------------------------- MemoryPool ------------------------------ *)
getRequiredChunks(n) ==
    (n \div DEFAULT_CHUNK_SIZE) + (IF n % DEFAULT_CHUNK_SIZE # 0 THEN 1 ELSE 0)

\* MemoryPool::MemoryPool(numChunks); data is pool.data(), the buffer's base address
MemoryPool(numChunks, data) ==
    [numChunks |-> numChunks,
     data |-> data,
     freeList |-> << <<0, numChunks>> >>,
     freeSetBySize |-> <<1>>,
     allocations |-> <<>>]

\* mutant of ChunkAddress: the chunk index is not scaled by the chunk size
ChunkAddressUnscaled(self, beginIndex) == self.data + beginIndex

\* pool.data() + (beginIndex * DEFAULT_CHUNK_SIZE): the address of a chunk
ChunkAddress(self, beginIndex) == self.data + (beginIndex * DEFAULT_CHUNK_SIZE)

\* mutant of allocate: the chunks are taken off the high end of the chosen node
\* (freeListItr->second -= requestedChunks) while the low ones are recorded
allocateCarveHigh(self, n) ==
    IF self.freeList = <<>> THEN [pool |-> self, ptr |-> nullptr]
    ELSE
    LET requestedChunks == getRequiredChunks(n)
        freeSetItr == lower_bound(self.freeList, self.freeSetBySize, requestedChunks)
    IN IF freeSetItr = Len(self.freeSetBySize) + 1 THEN [pool |-> self, ptr |-> nullptr]
       ELSE
       LET freeListItr == self.freeSetBySize[freeSetItr]
           beginIndex == self.freeList[freeListItr][1]
           endIndex == self.freeList[freeListItr][2]
           erased == RemoveAt(self.freeSetBySize, freeSetItr)
           exact == (endIndex - beginIndex = requestedChunks)
           newList == IF exact THEN RemoveAt(self.freeList, freeListItr)
                      ELSE [self.freeList EXCEPT ![freeListItr] =
                                <<beginIndex, endIndex - requestedChunks>>]
           newSet == IF exact THEN ShiftErase(erased, freeListItr)
                     ELSE SetInsert(newList, erased, freeListItr)
           ptr == ChunkAddress(self, beginIndex)
       IN [pool |-> [self EXCEPT
                        !.freeList = newList,
                        !.freeSetBySize = newSet,
                        !.allocations = Put(@, ptr, <<beginIndex, beginIndex + requestedChunks>>)],
           ptr |-> ptr]

\* MemoryPool::allocate(n): the pool afterwards and the returned pointer
allocate(self, n) ==
    IF self.freeList = <<>> THEN [pool |-> self, ptr |-> nullptr]
    ELSE
    LET requestedChunks == getRequiredChunks(n)
        freeSetItr == lower_bound(self.freeList, self.freeSetBySize, requestedChunks)
    IN IF freeSetItr = Len(self.freeSetBySize) + 1 THEN [pool |-> self, ptr |-> nullptr]
       ELSE
       LET freeListItr == self.freeSetBySize[freeSetItr]
           beginIndex == self.freeList[freeListItr][1]
           endIndex == self.freeList[freeListItr][2]
           erased == RemoveAt(self.freeSetBySize, freeSetItr)
           exact == (endIndex - beginIndex = requestedChunks)
           newList == IF exact THEN RemoveAt(self.freeList, freeListItr)
                      ELSE [self.freeList EXCEPT ![freeListItr] =
                                <<beginIndex + requestedChunks, endIndex>>]
           newSet == IF exact THEN ShiftErase(erased, freeListItr)
                     ELSE SetInsert(newList, erased, freeListItr)
           ptr == ChunkAddress(self, beginIndex)
       IN [pool |-> [self EXCEPT
                        !.freeList = newList,
                        !.freeSetBySize = newSet,
                        !.allocations = Put(@, ptr, <<beginIndex, beginIndex + requestedChunks>>)],
           ptr |-> ptr]

\* the insertion scan of deallocate: first node whose begin is not below the freed end
InsertionPoint(freeList, chunkIndices) ==
    LET stops == {i \in 1..Len(freeList) : ~(freeList[i][1] < chunkIndices[2])}
    IN IF stops = {} THEN Len(freeList) + 1
       ELSE CHOOSE i \in stops : \A j \in stops : i <= j

\* the merge loop of deallocate, from list position current on
RECURSIVE MergeAdjacent(_, _, _)
MergeAdjacent(freeList, freeSetBySize, current) ==
    IF current > Len(freeList)
    THEN [freeList |-> freeList, freeSetBySize |-> freeSetBySize, ok |-> TRUE]
    ELSE
    LET next == current + 1 IN
    IF next <= Len(freeList) /\ freeList[current][2] = freeList[next][1]
    THEN LET freeSetCurrentItr == SetFind(freeList, freeSetBySize, freeList[current])
             freeSetNextItr == SetFind(freeList, freeSetBySize, freeList[next])
             end == Len(freeSetBySize) + 1
         IN IF freeSetCurrentItr = end \/ freeSetNextItr = end
            THEN [freeList |-> freeList, freeSetBySize |-> freeSetBySize, ok |-> FALSE]
            ELSE
            LET merged == [freeList EXCEPT ![current] =
                              <<freeList[current][1], freeList[next][2]>>]
                kept == {i \in 1..Len(freeSetBySize) :
                            i # freeSetCurrentItr /\ i # freeSetNextItr}
                erased == [k \in 1..Cardinality(kept) |->
                              freeSetBySize[CHOOSE i \in kept :
                                  Cardinality({j \in kept : j < i}) = k - 1]]
                inserted == SetInsert(merged, erased, current)
            IN \* current = freeList.erase(next): the node after the erased one
               MergeAdjacent(RemoveAt(merged, next), ShiftErase(inserted, next), next)
    ELSE MergeAdjacent(freeList, freeSetBySize, current + 1)

\* mutant of deallocate: the freed range enters the free list one node per chunk, as in
\* a free list of single chunks, and nothing is merged
RECURSIVE InsertPerChunk(_, _, _, _, _)
InsertPerChunk(freeList, freeSetBySize, pos, b, e) ==
    IF b >= e THEN [freeList |-> freeList, freeSetBySize |-> freeSetBySize]
    ELSE LET listed == InsertAt(freeList, pos, <<b, b + 1>>)
         IN InsertPerChunk(listed, SetInsert(listed, ShiftInsert(freeSetBySize, pos), pos),
                           pos + 1, b + 1, e)

deallocatePerChunk(self, data) ==
    LET chunkIndices == self.allocations[data]
        current == InsertionPoint(self.freeList, chunkIndices)
        m == InsertPerChunk(self.freeList, self.freeSetBySize, current,
                            chunkIndices[1], chunkIndices[2])
    IN [pool |-> [self EXCEPT
                    !.allocations = Drop(@, data),
                    !.freeList = m.freeList,
                    !.freeSetBySize = m.freeSetBySize],
        ok |-> TRUE]

\* MemoryPool::deallocate(data), for data a key of allocations
deallocate(self, data) ==
    LET chunkIndices == self.allocations[data]
        current == InsertionPoint(self.freeList, chunkIndices)
        listed == InsertAt(self.freeList, current, chunkIndices)
        indexed == SetInsert(listed, ShiftInsert(self.freeSetBySize, current), current)
        m == MergeAdjacent(listed, indexed, 1)
    IN [pool |-> [self EXCEPT
                    !.allocations = Drop(@, data),
                    !.freeList = m.freeList,
                    !.freeSetBySize = m.freeSetBySize],
        ok |-> m.ok]

getNumAllocations(self) == Cardinality(DOMAIN self.allocations)
getNumFreeChunks(self) ==
    SumSeq([i \in 1..Len(self.freeList) |-> self.freeList[i][2] - self.freeList[i][1]])
getNumAllocatedChunks(self) ==
    SumOver([p \in DOMAIN self.allocations |->
                self.allocations[p][2] - self.allocations[p][1]], DOMAIN self.allocations)
getNumChunks(self) == (self.numChunks * DEFAULT_CHUNK_SIZE) \div DEFAULT_CHUNK_SIZE

(* ------------------------------ MultiPool ------------------------------ *)
\* the request sizes tried: 0 bytes and one size per chunk count, alternately one byte
\* into the chunk (rounded up by getRequiredChunks) and a whole number of chunks
Requests ==
    {0} \cup {IF c % 2 = 1 THEN (c - 1) * DEFAULT_CHUNK_SIZE + 1 ELSE c * DEFAULT_CHUNK_SIZE :
                 c \in 1..MaxReqChunks}

\* where the host allocator puts the next backing buffer: right behind the last one
NextData(ps) ==
    IF ps = <<>> THEN HeapBase
    ELSE ps[Len(ps)].data + ps[Len(ps)].numChunks * DEFAULT_CHUNK_SIZE

\* mutant: the loop keeps the last pool that can serve instead of returning at the first
LastServing(ps, n) ==
    LET hits == {i \in 1..Len(ps) : allocate(ps[i], n).ptr # nullptr}
    IN IF hits = {} THEN 0 ELSE CHOOSE i \in hits : \A j \in hits : i >= j

\* the while loop of MultiPool::allocate: the first pool whose allocate(n) is non-null, 0 if none
FirstServing(ps, n) ==
    LET hits == {i \in 1..Len(ps) : allocate(ps[i], n).ptr # nullptr}
    IN IF hits = {} THEN 0 ELSE CHOOSE i \in hits : \A j \in hits : i <= j

\* mostAmountOfChunks once the loop has passed every pool
mostAmountOfChunks(ps) == MaxSeq([i \in 1..Len(ps) |-> getNumChunks(ps[i])])

\* mutant: the appended pool is as large as the largest existing one
GrownPoolSameSize(ps, n) == MemoryPool(mostAmountOfChunks(ps), NextData(ps))

\* mutant: the appended pool is not doubled
GrownPoolNoDoubling(ps, n) ==
    MemoryPool(mostAmountOfChunks(ps) + getRequiredChunks(n), NextData(ps))

\* the pool MultiPool::allocate appends when no pool served the request
GrownPool(ps, n) ==
    MemoryPool((mostAmountOfChunks(ps) * 2) + getRequiredChunks(n), NextData(ps))

\* pools.emplace_back(...): the new pool goes behind the existing ones, which stay where
\* they are, so the iterators the routing map holds (here: positions) stay valid
emplace_back(ps, pool) == Append(ps, pool)

\* mutant of MultiPoolAllocate: the address served by a newly appended pool is not
\* entered in the routing map
MultiPoolAllocateUnroutedGrowth(ps, routing, n) ==
    LET current == FirstServing(ps, n)
    IN IF current # 0
       THEN LET r == allocate(ps[current], n)
            IN [pools |-> [ps EXCEPT ![current] = r.pool],
                allocations |-> Put(routing, r.ptr, current),
                ptr |-> r.ptr]
       ELSE LET r == allocate(GrownPool(ps, n), n)
            IN [pools |-> Append(ps, r.pool),
                allocations |-> routing,
                ptr |-> r.ptr]

\* mutant of MultiPoolAllocate: the new pool is put in front of the existing ones
MultiPoolAllocateFront(ps, routing, n) ==
    LET current == FirstServing(ps, n)
    IN IF current # 0
       THEN LET r == allocate(ps[current], n)
            IN [pools |-> [ps EXCEPT ![current] = r.pool],
                allocations |-> Put(routing, r.ptr, current),
                ptr |-> r.ptr]
       ELSE LET r == allocate(GrownPool(ps, n), n)
            IN [pools |-> <<r.pool>> \o ps,
                allocations |-> Put(routing, r.ptr, 1),
                ptr |-> r.ptr]

\* MultiPool::allocate(n): pools and routing map afterwards, and the returned pointer
MultiPoolAllocate(ps, routing, n) ==
    LET current == FirstServing(ps, n) IN
    IF current # 0
    THEN LET r == allocate(ps[current], n)
         IN [pools |-> [ps EXCEPT ![current] = r.pool],
             allocations |-> Put(routing, r.ptr, current),
             ptr |-> r.ptr]
    ELSE LET r == allocate(GrownPool(ps, n), n)
         IN [pools |-> emplace_back(ps, r.pool),
             allocations |-> Put(routing, r.ptr, Len(ps) + 1),
             ptr |-> r.ptr]

\* mutant of MultiPoolDeallocate: allocations.erase(allocations.begin()), the entry
\* of the lowest address goes instead of the one that was looked up
MultiPoolDeallocateEraseFirst(ps, routing, data) ==
    LET current == routing[data]
        known == data \in DOMAIN ps[current].allocations
        r == deallocate(ps[current], data)
        first == CHOOSE a \in DOMAIN routing : \A b \in DOMAIN routing : a <= b
    IN IF known /\ r.ok
       THEN [pools |-> [ps EXCEPT ![current] = r.pool],
             allocations |-> Drop(routing, first),
             ok |-> TRUE]
       ELSE [pools |-> ps, allocations |-> routing, ok |-> FALSE]

\* MultiPool::deallocate(data), for data a key of the routing map: the pool the entry
\* points at deallocates, then the entry is erased; ok = FALSE is a failed assert
MultiPoolDeallocate(ps, routing, data) ==
    LET current == routing[data]
        known == data \in DOMAIN ps[current].allocations
        r == deallocate(ps[current], data)
    IN IF known /\ r.ok
       THEN [pools |-> [ps EXCEPT ![current] = r.pool],
             allocations |-> Drop(routing, data),
             ok |-> TRUE]
       ELSE [pools |-> ps, allocations |-> routing, ok |-> FALSE]

\* the aggregate getters of MultiPool
MultiPoolNumAllocations == Cardinality(DOMAIN allocations)
MultiPoolNumFreeChunks == SumSeq([i \in 1..Len(pools) |-> getNumFreeChunks(pools[i])])
MultiPoolNumAllocatedChunks == SumSeq([i \in 1..Len(pools) |-> getNumAllocatedChunks(pools[i])])
MultiPoolNumChunks == SumSeq([i \in 1..Len(pools) |-> getNumChunks(pools[i])])

\* ghost: the number of allocate calls whose address the caller has not deallocated
LiveCalls == BagCardinality(live)

Init ==
    /\ \E initialChunks \in 1..MaxInitialChunks :
          pools = << MemoryPool(initialChunks, NextData(<<>>)) >>
    /\ allocations = <<>>
    /\ live = EmptyBag
    /\ lastOp = [op |-> "construct", n |-> 0, ptr |-> nullptr]
    /\ aborted = FALSE
    /\ ops = 0

Allocate(n) ==
    /\ ~aborted
    /\ ops < MaxOps
    /\ ops' = ops + 1
    /\ LiveCalls < MaxLive
    /\ FirstServing(pools, n) = 0 => Len(pools) < MaxPools
    /\ LET r == MultiPoolAllocate(pools, allocations, n)
       IN /\ pools' = r.pools
          /\ allocations' = r.allocations
          /\ live' = live (+) SetToBag({<<r.ptr, n>>})
          /\ lastOp' = [op |-> "allocate", n |-> n, ptr |-> r.ptr]
    /\ UNCHANGED aborted

\* MultiPool::deallocate(data) for an address the routing map knows
Deallocate(data) ==
    /\ ~aborted
    /\ ops < MaxOps
    /\ ops' = ops + 1
    /\ data \in DOMAIN allocations
    /\ LET r == MultiPoolDeallocate(pools, allocations, data)
       IN IF r.ok
          THEN /\ pools' = r.pools
               /\ allocations' = r.allocations
               /\ live' = [e \in {x \in DOMAIN live : x[1] # data} |-> live[e]]
               /\ UNCHANGED aborted
          ELSE /\ aborted' = TRUE
               /\ UNCHANGED <<pools, allocations, live>>
    \* ghost: n is the size in bytes an allocate call that returned data asked for
    /\ \E e \in {x \in DOMAIN live : x[1] = data} :
          lastOp' = [op |-> "deallocate", n |-> e[2], ptr |-> data]

Next ==
    \/ \E n \in Requests : Allocate(n)
    \/ \E data \in DOMAIN allocations : Deallocate(data)

Spec == Init /\ [][Next]_vars

(* ------------- deallocate of an address that is not allocated ----------- *)
\* mutant of deallocateAsserted: an address that is not a key is ignored
deallocateUnasserted(self, data) ==
    IF data \in DOMAIN self.allocations
    THEN deallocate(self, data)
    ELSE [pool |-> self, ok |-> TRUE]

\* MemoryPool::deallocate(data) for any address: allocations.find(data) and the
\* assert on its result come before everything else; ok = FALSE is the failed assert
deallocateAsserted(self, data) ==
    IF data \in DOMAIN self.allocations
    THEN deallocate(self, data)
    ELSE [pool |-> self, ok |-> FALSE]

\* std::map::at of the routing map: found = FALSE is the std::out_of_range it throws
at(routing, data) ==
    IF data \in DOMAIN routing
    THEN [found |-> TRUE, value |-> routing[data]]
    ELSE [found |-> FALSE, value |-> 0]

\* the addresses a caller can hold: null and the chunk addresses of the buffers
Addresses(ps) ==
    {nullptr} \cup UNION {{ps[i].data + (c * DEFAULT_CHUNK_SIZE) :
                               c \in 0..(ps[i].numChunks - 1)} : i \in 1..Len(ps)}

\* MultiPool::deallocate(data) for an address the routing map does not know:
\* allocations.at(data) throws, nobody catches, the program ends
DeallocateUnknown(data) ==
    /\ ~aborted
    /\ ops < MaxOps
    /\ ops' = ops + 1
    /\ ~at(allocations, data).found
    /\ aborted' = TRUE
    /\ UNCHANGED <<pools, allocations>>
    /\ lastOp' = [op |-> "deallocate", n |-> 0, ptr |-> data]
    /\ UNCHANGED live

\* MemoryPool::deallocate(data) called on the first pool itself with an address
\* that pool has not allocated
PoolDeallocateUnknown(data) ==
    /\ ~aborted
    /\ ops < MaxOps
    /\ ops' = ops + 1
    /\ data \notin DOMAIN pools[1].allocations
    /\ LET r == deallocateAsserted(pools[1], data)
       IN IF r.ok
          THEN /\ pools' = [pools EXCEPT ![1] = r.pool]
               /\ UNCHANGED aborted
          ELSE /\ aborted' = TRUE
               /\ UNCHANGED pools
    /\ lastOp' = [op |-> "MemoryPool::deallocate", n |-> 0, ptr |-> data]
    /\ UNCHANGED <<allocations, live>>

NextFatal ==
    \/ Next
    \/ \E data \in Addresses(pools) : DeallocateUnknown(data)
    \/ \E data \in Addresses(<<pools[1]>>) : PoolDeallocateUnknown(data)

SpecFatal == Init /\ [][NextFatal]_vars

(* ----------------- a MemoryPool used without a MultiPool ---------------- *)
InitPool ==
    /\ \E numChunks \in 1..MaxPoolChunks :
          pools = << MemoryPool(numChunks, NextData(<<>>)) >>
    /\ allocations = <<>>
    /\ live = EmptyBag
    /\ lastOp = [op |-> "construct", n |-> 0, ptr |-> nullptr]
    /\ aborted = FALSE
    /\ ops = 0

PoolAllocate(n) ==
    /\ ~aborted
    /\ LiveCalls < MaxLive
    /\ LET r == allocate(pools[1], n)
       IN /\ pools' = <<r.pool>>
          /\ live' = IF r.ptr = nullptr THEN live ELSE live (+) SetToBag({<<r.ptr, n>>})
          /\ lastOp' = [op |-> "allocate", n |-> n, ptr |-> r.ptr]
    /\ UNCHANGED <<allocations, aborted, ops>>

\* MemoryPool::deallocate(data) for an address the caller got from allocate and has not freed
PoolDeallocate(data) ==
    /\ ~aborted
    /\ data \in DOMAIN pools[1].allocations
    /\ LET r == deallocate(pools[1], data)
       IN IF r.ok
          THEN /\ pools' = <<r.pool>>
               /\ live' = [e \in {x \in DOMAIN live : x[1] # data} |-> live[e]]
               /\ UNCHANGED aborted
          ELSE /\ aborted' = TRUE
               /\ UNCHANGED <<pools, live>>
    /\ lastOp' = [op |-> "deallocate", n |-> 0, ptr |-> data]
    /\ UNCHANGED <<allocations, ops>>

NextPool ==
    \/ \E n \in Requests : PoolAllocate(n)
    \/ \E data \in DOMAIN pools[1].allocations : PoolDeallocate(data)

SpecPool == InitPool /\ [][NextPool]_vars

\* the same pool driven with requests of at least one byte only
NextPoolPos ==
    \/ \E n \in Requests \ {0} : PoolAllocate(n)
    \/ \E data \in DOMAIN pools[1].allocations : PoolDeallocate(data)

SpecPoolPos == InitPool /\ [][NextPoolPos]_vars


(* ====== the header revision: MemoryPool.hpp, a free list of single chunks ==== *)
DEFAULT_CHUNK_SIZE_hpp == 1024
nullopt == -1              \* a std::optional<size_t> that holds no value

\* the request sizes tried, in bytes (numElements * sizeof(DataType)): one chunk, and
\* one chunk and a bit
Requests_hpp == {40, DEFAULT_CHUNK_SIZE_hpp + 4}

\* what a read of an optional without a value, or of a chunk outside the view, may yield
Garbage == 0..MaxHppExtent

\* MemoryPool(numChunks) of the header revision: chunk i points at chunk i + 1, the last
\* chunk at nothing, and freeList at chunk 0
MemoryPool_hpp(numChunks) ==
    [extent |-> numChunks,
     data |-> HeapBase,
     next |-> [i \in 0..(numChunks - 1) |-> IF i = numChunks - 1 THEN nullopt ELSE i + 1],
     freeList |-> 0,
     allocations |-> <<>>]

\* *opt: the value held, and g when there is none (undefined)
Value(opt, g) == IF opt = nullopt THEN g ELSE opt

\* pool(i).next, and g for a chunk outside the view (undefined)
NextOf(self, i, g) == IF i \in DOMAIN self.next THEN self.next[i] ELSE g

\* pool(i).next = v; a write outside the view is not seen again
SetNext(next, i, v) == IF i \in DOMAIN next THEN [next EXCEPT ![i] = v] ELSE next

\* the while loop of allocate (lines 39-67) from the locals l on; exit says how it ended:
\* "found" at line 41, "end" when current holds no value, "hang" when it does not end
RECURSIVE AllocateLoop(_, _, _, _, _)
AllocateLoop(self, requestedSize, g, l, fuel) ==
    IF l.current = nullopt THEN [l EXCEPT !.exit = "end"]
    ELSE IF fuel = 0 THEN [l EXCEPT !.exit = "hang"]
    ELSE
    LET currentSize == l.currentSize + DEFAULT_CHUNK_SIZE_hpp
        next == NextOf(self, l.current, g)
    IN IF currentSize >= requestedSize
       THEN [l EXCEPT !.exit = "found", !.currentSize = currentSize]
       ELSE LET broken == Value(next, g) # l.current + 1
            IN AllocateLoop(self, requestedSize, g,
                   [l EXCEPT !.currentSize = IF broken THEN 0 ELSE currentSize,
                             !.beforeBeginSequence = IF broken THEN l.current ELSE @,
                             !.beginSequence = IF broken THEN Value(next, g) ELSE @,
                             !.last = l.current,
                             !.current = next,
                             !.ub = @ \/ next = nullopt \/ l.current \notin DOMAIN self.next],
                   fuel - 1)

\* allocate<DataType>(numElements), requestedSize = numElements * sizeof(DataType); g is
\* what undefined reads yield in this call.  outcome: "returned", "assert" (line 87) or
\* "hang"; ub tells whether the call made an undefined read or write
allocate_hpp(self, requestedSize, g) ==
    LET l == AllocateLoop(self, requestedSize, g,
                 [current |-> self.freeList,
                  last |-> Value(self.freeList, 0),
                  beforeBeginSequence |-> Value(self.freeList, 0),
                  beginSequence |-> Value(self.freeList, 0),
                  currentSize |-> 0, ub |-> FALSE, exit |-> "loop"],
                 2 * MaxHppExtent + 2)
    IN IF l.exit = "hang"
       THEN [pool |-> self, ptr |-> nullptr, ub |-> l.ub, outcome |-> "hang"]
       ELSE IF l.exit = "found"
       THEN LET next == NextOf(self, l.current, g)
                allocatedBlocksIndices == <<l.beginSequence, l.current + 1>>
                beginChunk == self.data + (l.beginSequence * DEFAULT_CHUNK_SIZE_hpp)
            IN [pool |-> [self EXCEPT
                            !.freeList = IF l.beginSequence = 0 THEN Value(next, g) ELSE @,
                            !.next = IF l.beginSequence = 0 THEN @
                                     ELSE SetNext(@, l.beforeBeginSequence, Value(next, g)),
                            !.allocations = Put(@, beginChunk, allocatedBlocksIndices)],
                ptr |-> beginChunk,
                ub |-> \/ l.ub
                       \/ next = nullopt
                       \/ l.current \notin DOMAIN self.next
                       \/ (l.beginSequence # 0 /\ l.beforeBeginSequence \notin DOMAIN self.next),
                outcome |-> "returned"]
       ELSE LET numChunks == (requestedSize \div DEFAULT_CHUNK_SIZE_hpp) + 1
                extent == self.extent + numChunks
                resized == [i \in 0..(extent - 1) |->
                               IF i \in DOMAIN self.next THEN self.next[i] ELSE nullopt]
                linked == [i \in 0..(extent - 1) |->
                              IF i = l.last + numChunks - 1 THEN nullopt
                              ELSE IF i >= l.last /\ i < l.last + numChunks - 1
                                   THEN (i - l.last) + 1
                                   ELSE resized[i]]
                data == self.data + (self.extent * DEFAULT_CHUNK_SIZE_hpp)
                beginChunk == data + (l.last * DEFAULT_CHUNK_SIZE_hpp)
            IN [pool |-> [extent |-> extent,
                          data |-> data,
                          next |-> linked,
                          freeList |-> IF l.last = 0 THEN Value(linked[0], g)
                                       ELSE self.freeList,
                          allocations |-> Put(self.allocations, beginChunk,
                                              <<l.last, l.last + numChunks>>)],
                ptr |-> beginChunk,
                ub |-> l.ub \/ (l.last = 0 /\ linked[0] = nullopt),
                outcome |-> IF l.last = l.beginSequence THEN "returned" ELSE "assert"]

\* the while loop of deallocate (lines 119-122); it changes locals only
RECURSIVE DeallocateLoop(_, _, _, _, _)
DeallocateLoop(self, first, g, current, fuel) ==
    IF ~(current < first) THEN [ub |-> FALSE, outcome |-> "returned"]
    ELSE IF fuel = 0 THEN [ub |-> FALSE, outcome |-> "hang"]
    ELSE LET next == NextOf(self, current, g)
             rest == DeallocateLoop(self, first, g, Value(next, g), fuel - 1)
         IN [ub |-> rest.ub \/ next = nullopt \/ current \notin DOMAIN self.next,
             outcome |-> rest.outcome]

\* deallocate<DataType>(view) for view.data() = beginChunk a key of allocations
deallocate_hpp(self, beginChunk, g) ==
    LET allocatedBlocksIndices == self.allocations[beginChunk]
        first == allocatedBlocksIndices[1]
        second == allocatedBlocksIndices[2]
        reset == [self EXCEPT !.next = [i \in DOMAIN self.next |->
                                           IF i >= first /\ i < second THEN i + 1
                                           ELSE self.next[i]]]
    IN IF self.freeList = nullopt
       THEN [pool |-> [reset EXCEPT !.freeList = first,
                                    !.next = SetNext(@, second - 1, nullopt)],
             ub |-> FALSE, outcome |-> "returned"]
       ELSE IF first < self.freeList
       THEN [pool |-> [reset EXCEPT !.next = SetNext(@, second - 1, self.freeList),
                                    !.freeList = first],
             ub |-> FALSE, outcome |-> "returned"]
       ELSE LET w == DeallocateLoop(reset, first, g, self.freeList, 2 * MaxHppExtent + 2)
            IN [pool |-> reset, ub |-> w.ub, outcome |-> w.outcome]

InitHpp ==
    /\ \E numChunks \in 1..MaxHppChunks : pools = << MemoryPool_hpp(numChunks) >>
    /\ allocations = <<>>
    /\ live = EmptyBag
    /\ lastOp = [op |-> "construct", n |-> 0, ptr |-> nullptr]
    /\ aborted = FALSE
    /\ ops = 0

\* a call that returns leaves the pool it computed; a call that fails its assert or
\* does not end, and possibly one that did something undefined, ends the run
HppAllocate(n, g) ==
    /\ ~aborted
    /\ ops < MaxHppOps
    /\ ops' = ops + 1
    /\ LET r == allocate_hpp(pools[1], n, g)
       IN /\ r.pool.extent <= MaxHppExtent
          /\ \/ /\ r.outcome = "returned"
                /\ pools' = <<r.pool>>
                /\ live' = live (+) SetToBag({<<r.ptr, n>>})
                /\ UNCHANGED aborted
             \/ /\ r.outcome # "returned" \/ r.ub
                /\ aborted' = TRUE
                /\ UNCHANGED <<pools, live>>
          /\ lastOp' = [op |-> "allocate", n |-> n, ptr |-> r.ptr]
    /\ UNCHANGED allocations

\* deallocate of a view the caller got from allocate and has not deallocated yet
HppDeallocate(beginChunk, g) ==
    /\ ~aborted
    /\ ops < MaxHppOps
    /\ ops' = ops + 1
    /\ beginChunk \in DOMAIN pools[1].allocations
    /\ \E e \in DOMAIN live : e[1] = beginChunk
    /\ LET r == deallocate_hpp(pools[1], beginChunk, g)
       IN \/ /\ r.outcome = "returned"
             /\ pools' = <<r.pool>>
             /\ live' = [e \in {x \in DOMAIN live : x[1] # beginChunk} |-> live[e]]
             /\ UNCHANGED aborted
          \/ /\ r.outcome # "returned" \/ r.ub
             /\ aborted' = TRUE
             /\ UNCHANGED <<pools, live>>
    /\ lastOp' = [op |-> "deallocate", n |-> 0, ptr |-> beginChunk]
    /\ UNCHANGED allocations

NextHpp ==
    \/ \E n \in Requests_hpp, g \in Garbage : HppAllocate(n, g)
    \/ \E beginChunk \in DOMAIN pools[1].allocations, g \in Garbage :
          HppDeallocate(beginChunk, g)

SpecHpp == InitHpp /\ [][NextHpp]_vars


(* ============================== the claims ============================= *)
PoolIds == 1..Len(pools)
FreeRanges(self) == {self.freeList[i] : i \in 1..Len(self.freeList)}

\* ---------------------------------------------------------------------------
\* C1  Conservation.  In every pool getNumFreeChunks() + getNumAllocatedChunks()
\* equals getNumChunks(), and the sums of the three getters over all pools of
\* the MultiPool satisfy the same equality.
C1_Conservation ==
    /\ \A i \in PoolIds :
          getNumFreeChunks(pools[i]) + getNumAllocatedChunks(pools[i]) = getNumChunks(pools[i])
    /\ MultiPoolNumFreeChunks + MultiPoolNumAllocatedChunks = MultiPoolNumChunks

\* ---------------------------------------------------------------------------
\* C2  Partition.  In a pool of N chunks every chunk of [0, N) lies in exactly
\* one range among the free-list nodes and the allocations entries, and no
\* range reaches outside [0, N).
Owners(self, c) ==
    Cardinality({i \in 1..Len(self.freeList) : c \in Chunks(self.freeList[i])})
        + Cardinality({p \in DOMAIN self.allocations : c \in Chunks(self.allocations[p])})

C2_Partition ==
    \A i \in PoolIds :
       /\ \A c \in 0..(pools[i].numChunks - 1) : Owners(pools[i], c) = 1
       /\ \A r \in FreeRanges(pools[i]) \cup {pools[i].allocations[p] : p \in DOMAIN pools[i].allocations} :
             Chunks(r) \subseteq 0..(pools[i].numChunks - 1)

\* ---------------------------------------------------------------------------
\* C3  No touching free ranges.  For two distinct nodes A, B of a pool's free
\* list with A.begin < B.begin, A.end < B.begin.
C3_NoTouchingFreeRanges ==
    \A i \in PoolIds :
       \A a, b \in 1..Len(pools[i].freeList) :
          (a # b /\ pools[i].freeList[a][1] < pools[i].freeList[b][1])
             => pools[i].freeList[a][2] < pools[i].freeList[b][1]

\* ---------------------------------------------------------------------------
\* C4  Index agreement.  freeSetBySize holds exactly one iterator to every node
\* of freeList and nothing else, and its elements are in the strict order of
\* CompareFreeIndices on the values the nodes hold now.
SizeThenPosition(l, r) ==
    \/ l[2] - l[1] < r[2] - r[1]
    \/ l[2] - l[1] = r[2] - r[1] /\ (l[1] < r[1] \/ (l[1] = r[1] /\ l[2] < r[2]))

IndexAgreement(self) ==
    /\ Len(self.freeSetBySize) = Len(self.freeList)
    /\ {self.freeSetBySize[i] : i \in 1..Len(self.freeSetBySize)} = 1..Len(self.freeList)
    /\ \A i, j \in 1..Len(self.freeSetBySize) :
          i < j => SizeThenPosition(self.freeList[self.freeSetBySize[i]],
                                    self.freeList[self.freeSetBySize[j]])

C4_IndexAgreement == \A i \in PoolIds : IndexAgreement(pools[i])

\* after a deallocate the pool has several non-empty free fragments and the smallest is not
\* the first by position: the two indices list the same nodes in different orders
C4_Witness ==
    /\ lastOp.op = "deallocate"
    /\ Len(pools[1].freeList) >= 2
    /\ pools[1].freeSetBySize[1] # 1
    /\ \A a \in 1..Len(pools[1].freeList) : RangeSize(pools[1].freeList[a]) >= 1

\* ---------------------------------------------------------------------------
\* C5  Best fit.  A successful MemoryPool::allocate(n) takes its chunks from a
\* free-list node that holds at least getRequiredChunks(n) chunks, no fitting
\* node is smaller, and among fitting nodes of that size none begins lower.
Fits(self, k) == {j \in 1..Len(self.freeList) : self.freeList[j][2] - self.freeList[j][1] >= k}

BestFit(self, k, j) ==
    /\ j \in Fits(self, k)
    /\ \A i \in Fits(self, k) :
          LET sj == self.freeList[j][2] - self.freeList[j][1]
              si == self.freeList[i][2] - self.freeList[i][1]
          IN sj < si \/ (sj = si /\ self.freeList[j][1] <= self.freeList[i][1])

\* after is before with the lowest k chunks of node j handed out at address ptr
TakenFrom(before, after, k, j, ptr) ==
    LET b == before.freeList[j][1]
        e == before.freeList[j][2]
    IN /\ ptr = before.data + b * DEFAULT_CHUNK_SIZE
       /\ ptr \in DOMAIN after.allocations
       /\ after.allocations[ptr] = <<b, b + k>>
       /\ after.freeList = IF e - b = k THEN SubSeq(before.freeList, 1, j - 1)
                                              \o SubSeq(before.freeList, j + 1, Len(before.freeList))
                           ELSE [before.freeList EXCEPT ![j] = <<b + k, e>>]

C5_BestFit ==
    [][ (lastOp'.op = "allocate" /\ lastOp'.ptr # nullptr)
          => \E j \in 1..Len(pools[1].freeList) :
                /\ BestFit(pools[1], getRequiredChunks(lastOp'.n), j)
                /\ TakenFrom(pools[1], pools'[1], getRequiredChunks(lastOp'.n), j, lastOp'.ptr)
      ]_vars

\* an allocate of k >= 1 chunks has just succeeded although a larger free range with a
\* lower begin was (and still is) free: the smaller, later range was preferred
C5_Witness ==
    /\ lastOp.op = "allocate"
    /\ lastOp.ptr \in DOMAIN pools[1].allocations
    /\ getRequiredChunks(lastOp.n) >= 1
    /\ \E r \in FreeRanges(pools[1]) :
          /\ r[1] < pools[1].allocations[lastOp.ptr][1]
          /\ r[2] - r[1] > getRequiredChunks(lastOp.n)

\* ---------------------------------------------------------------------------
\* C6  Round trip.  A pool whose allocations map is empty again has exactly one
\* free range, [0, numChunks).
C6_RoundTrip ==
    \A i \in PoolIds :
       DOMAIN pools[i].allocations = {} => pools[i].freeList = << <<0, pools[i].numChunks>> >>

\* ---------------------------------------------------------------------------
\* C7  MultiPool::allocate never returns null: the address it returned is
\* non-null and is a key of the routing map.
C7_NeverNull ==
    lastOp.op = "allocate" => (lastOp.ptr # nullptr /\ lastOp.ptr \in DOMAIN allocations)

\* the last allocate was served by a pool appended for it: the request did not fit pool 1
C7_Witness ==
    /\ lastOp.op = "allocate"
    /\ Len(pools) = 2
    /\ lastOp.ptr # nullptr
    /\ DOMAIN pools[2].allocations = {lastOp.ptr}
    /\ pools[2].allocations[lastOp.ptr] = <<0, getRequiredChunks(lastOp.n)>>
    /\ getRequiredChunks(lastOp.n) > pools[1].numChunks

\* ---------------------------------------------------------------------------
\* C8  Growth size.  When no existing pool has a free range that holds the
\* request, MultiPool::allocate appends exactly one pool, of
\* 2 * M + getRequiredChunks(n) chunks, M the largest getNumChunks() among the
\* pools that existed before the call; the existing pools are left as they were.
NoPoolFits(ps, k) == \A i \in 1..Len(ps) : Fits(ps[i], k) = {}

LargestPool(ps) ==
    CHOOSE m \in {ps[i].numChunks : i \in 1..Len(ps)} :
        \A i \in 1..Len(ps) : ps[i].numChunks <= m

C8_GrowthSize ==
    [][ (lastOp'.op = "allocate" /\ ops' = ops + 1
            /\ NoPoolFits(pools, getRequiredChunks(lastOp'.n)))
          => /\ Len(pools') = Len(pools) + 1
             /\ SubSeq(pools', 1, Len(pools)) = pools
             /\ getNumChunks(pools'[Len(pools')])
                   = 2 * LargestPool(pools) + getRequiredChunks(lastOp'.n)
      ]_vars

\* a second pool exists, of twice the first pool's size plus the chunks of the request
\* that has just been served from it as its only allocation
C8_Witness ==
    /\ lastOp.op = "allocate"
    /\ Len(pools) = 2
    /\ getRequiredChunks(lastOp.n) >= 1
    /\ DOMAIN pools[2].allocations = {lastOp.ptr}
    /\ pools[2].numChunks = 2 * pools[1].numChunks + getRequiredChunks(lastOp.n)
    /\ pools[2].freeList = << <<getRequiredChunks(lastOp.n), pools[2].numChunks>> >>

\* ---------------------------------------------------------------------------
\* C9  Routing order.  MultiPool::allocate serves the request from the first
\* pool, in append order, with a free range that holds it, and maps the
\* returned address to that pool; it appends a pool only if there is none.
C9_RoutingOrder ==
    [][ (lastOp'.op = "allocate" /\ ops' = ops + 1)
          => LET k == getRequiredChunks(lastOp'.n)
                 able == {i \in 1..Len(pools) : Fits(pools[i], k) # {}}
             IN IF able # {}
                THEN LET first == CHOOSE i \in able : \A j \in able : i <= j
                     IN /\ Len(pools') = Len(pools)
                        /\ lastOp'.ptr \in DOMAIN pools'[first].allocations
                        /\ lastOp'.ptr \in DOMAIN allocations'
                        /\ allocations'[lastOp'.ptr] = first
                        /\ \A j \in 1..Len(pools) : j # first => pools'[j] = pools[j]
                ELSE /\ Len(pools') = Len(pools) + 1
                     /\ lastOp'.ptr \in DOMAIN allocations'
                     /\ allocations'[lastOp'.ptr] = Len(pools')
      ]_vars

\* the last allocate was served by pool 1 while pool 2 also had a free range that holds it
C9_Witness ==
    /\ lastOp.op = "allocate"
    /\ Len(pools) = 2
    /\ getRequiredChunks(lastOp.n) >= 1
    /\ lastOp.ptr \in DOMAIN allocations
    /\ allocations[lastOp.ptr] = 1
    /\ lastOp.ptr \in DOMAIN pools[1].allocations
    /\ Fits(pools[2], getRequiredChunks(lastOp.n)) # {}

\* ---------------------------------------------------------------------------
\* C10  Accounting.  getNumAllocations() of the MultiPool is the number of
\* allocate calls whose address has not been deallocated since, and
\* getNumAllocatedChunks() is the sum of getRequiredChunks(n) over those calls.
C10_Accounting ==
    /\ MultiPoolNumAllocations = LiveCalls
    /\ MultiPoolNumAllocatedChunks
          = SumOver([e \in DOMAIN live |-> live[e] * getRequiredChunks(e[2])], DOMAIN live)

\* ---------------------------------------------------------------------------
\* C11  Routing agreement.  The routing map of the MultiPool has as many
\* entries as the pools' getNumAllocations() add up to, and its keys are
\* exactly the keys of the pools' allocations maps taken together.
C11_RoutingAgreement ==
    /\ Cardinality(DOMAIN allocations)
          = SumSeq([i \in PoolIds |-> getNumAllocations(pools[i])])
    /\ DOMAIN allocations = UNION {DOMAIN pools[i].allocations : i \in PoolIds}

\* allocations are outstanding in two pools at once, one of them made after a deallocate
C11_Witness ==
    /\ Len(pools) >= 2
    /\ DOMAIN pools[1].allocations # {}
    /\ DOMAIN pools[2].allocations # {}
    /\ Cardinality(DOMAIN allocations) >= 2
    /\ lastOp.op = "deallocate"

C13_FragmentsNeverIncrease ==
    [][ (lastOp'.op = "deallocate" /\ ~aborted')
          => Len(pools'[1].freeList) <= Len(pools[1].freeList) ]_vars

\* C13 as amended: a MemoryPool::deallocate leaves at most one free-list node
\* more than there were before it.
C13_FragmentsPlusOne ==
    [][ (lastOp'.op = "deallocate" /\ ~aborted')
          => Len(pools'[1].freeList) <= Len(pools[1].freeList) + 1 ]_vars

\* the range just freed is a free-list node of its own that touches no other node, next
\* to at least one other free range: the deallocate added a fragment
C13_Witness ==
    /\ lastOp.op = "deallocate"
    /\ ~aborted
    /\ Len(pools[1].freeList) >= 2
    /\ \E j \in 1..Len(pools[1].freeList) :
          /\ lastOp.ptr = pools[1].data + pools[1].freeList[j][1] * DEFAULT_CHUNK_SIZE
          /\ RangeSize(pools[1].freeList[j]) >= 1
          /\ \A i \in 1..Len(pools[1].freeList) :
                i # j => /\ RangeSize(pools[1].freeList[i]) >= 1
                         /\ pools[1].freeList[i][2] < pools[1].freeList[j][1]
                            \/ pools[1].freeList[j][2] < pools[1].freeList[i][1]

\* ---------------------------------------------------------------------------
\* C14  At least one chunk.  Every request that MemoryPool::allocate serves asks
\* for getRequiredChunks(n) >= 1 chunks, and every range [b, e) recorded in
\* allocations has b < e.
C14_AtLeastOneChunk ==
    /\ (lastOp.op = "allocate" /\ lastOp.ptr # nullptr) => getRequiredChunks(lastOp.n) >= 1
    /\ \A i \in PoolIds : \A p \in DOMAIN pools[i].allocations :
          pools[i].allocations[p][1] < pools[i].allocations[p][2]

\* ---------------------------------------------------------------------------
\* C15  Well-formed free ranges.  Every node of freeList is a non-empty range
\* [begin, end) with 0 <= begin and end <= numChunks.
C15_FreeRangesWellFormed ==
    \A i \in PoolIds : \A r \in FreeRanges(pools[i]) :
       0 <= r[1] /\ r[1] < r[2] /\ r[2] <= pools[i].numChunks

\* ---------------------------------------------------------------------------
\* C16  Out of space.  MemoryPool::allocate(n) returns null exactly when no
\* free-list node holds getRequiredChunks(n) chunks or more, and a call that
\* returns null leaves freeList, freeSetBySize and allocations as they were.
C16_NullIffNoFit ==
    [][ lastOp'.op = "allocate"
          => LET k == getRequiredChunks(lastOp'.n)
             IN /\ (lastOp'.ptr = nullptr)
                      <=> (\A r \in FreeRanges(pools[1]) : r[2] - r[1] < k)
                /\ (lastOp'.ptr = nullptr)
                      => /\ pools'[1].freeList = pools[1].freeList
                         /\ pools'[1].freeSetBySize = pools[1].freeSetBySize
                         /\ pools'[1].allocations = pools[1].allocations
      ]_vars

\* an allocate has just returned null although the pool has, in several fragments, as
\* many free chunks as were asked for: no single free range holds the request
C16_Witness ==
    /\ lastOp.op = "allocate"
    /\ lastOp.ptr = nullptr
    /\ getRequiredChunks(lastOp.n) >= 2
    /\ Len(pools[1].freeList) >= 2
    /\ getNumFreeChunks(pools[1]) >= getRequiredChunks(lastOp.n)
    /\ \A r \in FreeRanges(pools[1]) : r[1] < r[2]
    /\ \A p \in DOMAIN pools[1].allocations :
          pools[1].allocations[p][1] < pools[1].allocations[p][2]
    /\ DOMAIN pools[1].allocations # {}

\* ---------------------------------------------------------------------------
\* C17  Address identity.  Every entry (address, [b, e)) of a pool's
\* allocations map has address = pool.data() + b * DEFAULT_CHUNK_SIZE, in
\* every state from the allocate that made it to the deallocate that drops it.
C17_AddressIdentity ==
    \A i \in PoolIds : \A address \in DOMAIN pools[i].allocations :
       address = pools[i].data + pools[i].allocations[address][1] * DEFAULT_CHUNK_SIZE

\* an allocation that does not begin at chunk 0 has outlived a deallocate and a later
\* allocate of other addresses
C17_Witness ==
    /\ lastOp.op = "allocate"
    /\ lastOp.ptr # nullptr
    /\ \E address \in DOMAIN pools[1].allocations :
          /\ address # lastOp.ptr
          /\ pools[1].allocations[address][1] >= 1
          /\ pools[1].allocations[address][2] > pools[1].allocations[address][1]
          /\ lastOp.ptr \in DOMAIN pools[1].allocations
          /\ pools[1].allocations[lastOp.ptr][2] <= pools[1].allocations[address][1]
          /\ pools[1].allocations[lastOp.ptr][1] >= 1

\* ---------------------------------------------------------------------------
\* C18  Pools are only appended.  Across every MultiPool operation the number
\* of pools does not decrease, every pool that existed keeps its position, its
\* buffer and its getNumChunks(), every address that stays in the routing map
\* stays mapped to the same pool, and every routing entry points at a pool whose
\* allocations map has that address.
C18_AppendOnly ==
    [][ /\ Len(pools') >= Len(pools)
        /\ \A i \in 1..Len(pools) :
              /\ pools'[i].data = pools[i].data
              /\ getNumChunks(pools'[i]) = getNumChunks(pools[i])
        /\ \A a \in DOMAIN allocations \cap DOMAIN allocations' :
              allocations'[a] = allocations[a]
        /\ \A a \in DOMAIN allocations' :
              /\ allocations'[a] \in 1..Len(pools')
              /\ a \in DOMAIN pools'[allocations'[a]].allocations
      ]_vars

\* a third pool has just been appended for a request while addresses served by the
\* first and by the second pool are still allocated and routed to them
C18_Witness ==
    /\ lastOp.op = "allocate"
    /\ Len(pools) = 3
    /\ lastOp.ptr \in DOMAIN allocations
    /\ allocations[lastOp.ptr] = 3
    /\ \E a, b \in DOMAIN allocations :
          /\ allocations[a] = 1 /\ a \in DOMAIN pools[1].allocations
          /\ allocations[b] = 2 /\ b \in DOMAIN pools[2].allocations

\* ---------------------------------------------------------------------------
\* C19  Coalescing step.  MemoryPool::deallocate of the allocated range
\* R = [b, e) leaves exactly these free ranges: the ones there were, without
\* the one that ends at b and the one that begins at e, plus the single range
\* that R and those neighbours make up; the other allocations entries stay.
NeighbourMerge(free, R) ==
    LET pred == {r \in free : r[2] = R[1]}
        succ == {r \in free : r[1] = R[2]}
        b == IF pred = {} THEN R[1] ELSE (CHOOSE r \in pred : TRUE)[1]
        e == IF succ = {} THEN R[2] ELSE (CHOOSE r \in succ : TRUE)[2]
    IN (free \ (pred \cup succ)) \cup {<<b, e>>}

C19_CoalescingStep ==
    [][ (lastOp'.op = "deallocate" /\ ~aborted')
          => LET R == pools[1].allocations[lastOp'.ptr]
             IN /\ FreeRanges(pools'[1]) = NeighbourMerge(FreeRanges(pools[1]), R)
                /\ Len(pools'[1].freeList) = Cardinality(FreeRanges(pools'[1]))
                /\ pools'[1].allocations = Drop(pools[1].allocations, lastOp'.ptr)
      ]_vars

\* ---------------------------------------------------------------------------
\* C20  Allocation carve.  A successful MemoryPool::allocate of k chunks out of
\* the free-list node [b, e) records [b, b + k) under the returned address,
\* leaves [b + k, e) in the node's place if e - b > k and removes the node if
\* e - b = k, and leaves every other free-list node and the allocations entry
\* of every other address as it was.
C20_Carve ==
    [][ (lastOp'.op = "allocate" /\ lastOp'.ptr # nullptr)
          => LET k == getRequiredChunks(lastOp'.n)
                 ptr == lastOp'.ptr
                 old == pools[1].freeList
                 new == pools'[1].freeList
             IN \E j \in 1..Len(old) :
                   LET b == old[j][1]
                       e == old[j][2]
                   IN /\ e - b >= k
                      /\ DOMAIN pools'[1].allocations = DOMAIN pools[1].allocations \cup {ptr}
                      /\ pools'[1].allocations[ptr] = <<b, b + k>>
                      /\ \A p \in DOMAIN pools[1].allocations \ {ptr} :
                            pools'[1].allocations[p] = pools[1].allocations[p]
                      /\ IF e - b > k
                         THEN /\ Len(new) = Len(old)
                              /\ new[j] = <<b + k, e>>
                              /\ \A i \in 1..Len(old) : i # j => new[i] = old[i]
                         ELSE /\ Len(new) = Len(old) - 1
                              /\ \A i \in 1..Len(new) :
                                    new[i] = IF i < j THEN old[i] ELSE old[i + 1]
      ]_vars

\* an allocate of k >= 1 chunks has just been served out of a larger free range, whose
\* remainder is free right behind the allocation, while another allocation made
\* earlier is still there
C20_Witness ==
    /\ lastOp.op = "allocate"
    /\ lastOp.ptr \in DOMAIN pools[1].allocations
    /\ getRequiredChunks(lastOp.n) >= 1
    /\ pools[1].allocations[lastOp.ptr][2] - pools[1].allocations[lastOp.ptr][1]
          = getRequiredChunks(lastOp.n)
    /\ \E r \in FreeRanges(pools[1]) :
          /\ r[1] = pools[1].allocations[lastOp.ptr][2]
          /\ r[1] < r[2]
    /\ \E p \in DOMAIN pools[1].allocations :
          /\ p # lastOp.ptr
          /\ pools[1].allocations[p][1] < pools[1].allocations[p][2]

\* ---------------------------------------------------------------------------
\* C21  Deallocate frame.  MultiPool::deallocate(address) deallocates in the
\* pool whose buffer the address lies in, which is the pool the routing entry
\* points at, and erases that routing entry; every other pool and every other
\* routing entry is as it was.
C21_DeallocateFrame ==
    [][ (lastOp'.op = "deallocate" /\ ~aborted')
          => LET address == lastOp'.ptr
                 owner == allocations[address]
             IN /\ pools[owner].data <= address
                /\ address < pools[owner].data + pools[owner].numChunks * DEFAULT_CHUNK_SIZE
                /\ address \in DOMAIN pools[owner].allocations
                /\ address \notin DOMAIN pools'[owner].allocations
                /\ Len(pools') = Len(pools)
                /\ \A j \in 1..Len(pools) : j # owner => pools'[j] = pools[j]
                /\ DOMAIN allocations' = DOMAIN allocations \ {address}
                /\ \A a \in DOMAIN allocations' : allocations'[a] = allocations[a]
      ]_vars

\* an address of the second pool has just been deallocated while the first pool, with a
\* lower address, and the second pool still hold allocations that are routed to them
C21_Witness ==
    /\ lastOp.op = "deallocate"
    /\ ~aborted
    /\ Len(pools) >= 2
    /\ lastOp.ptr >= pools[2].data
    /\ lastOp.ptr \notin DOMAIN allocations
    /\ \E a, b \in DOMAIN allocations :
          /\ allocations[a] = 1 /\ a \in DOMAIN pools[1].allocations
          /\ allocations[b] = 2 /\ b \in DOMAIN pools[2].allocations

\* ---------------------------------------------------------------------------
\* C22  Geometric growth.  A pool appended by MultiPool::allocate has more than
\* twice the chunks of every pool that existed before it and at least the
\* chunks of the request it was appended for; the pools' getNumChunks() are
\* strictly increasing in append order.
C22_GeometricGrowth ==
    [][ (lastOp'.op = "allocate" /\ Len(pools') = Len(pools) + 1)
          => /\ \A i \in 1..Len(pools) :
                   getNumChunks(pools'[Len(pools')]) > 2 * getNumChunks(pools[i])
             /\ getNumChunks(pools'[Len(pools')]) >= getRequiredChunks(lastOp'.n)
             /\ \A i, j \in 1..Len(pools') :
                   i < j => getNumChunks(pools'[i]) < getNumChunks(pools'[j])
      ]_vars

\* ---------------------------------------------------------------------------
\* C23  Reuse after free.  When an allocation of n bytes has just been
\* deallocated and the next call is allocate(m) with
\* getRequiredChunks(m) <= getRequiredChunks(n), that allocate appends no pool:
\* the number of pools and getNumChunks() stay as they are.
C23_ReuseAfterFree ==
    [][ (lastOp.op = "deallocate" /\ ~aborted /\ lastOp'.op = "allocate"
            /\ getRequiredChunks(lastOp'.n) <= getRequiredChunks(lastOp.n))
          => /\ Len(pools') = Len(pools)
             /\ SumSeq([i \in 1..Len(pools') |-> getNumChunks(pools'[i])])
                   = MultiPoolNumChunks
      ]_vars

\* ---------------------------------------------------------------------------
\* C24  Position order.  In every pool the nodes of freeList are in strictly
\* increasing order of begin.
C24_PositionOrder ==
    \A i \in PoolIds : \A a \in 1..(Len(pools[i].freeList) - 1) :
       pools[i].freeList[a][1] < pools[i].freeList[a + 1][1]

\* ---------------------------------------------------------------------------
\* C25  Header revision.  After deallocate(view) of the header revision returns,
\* the address of the view is no longer a key of allocations and every chunk of
\* its range is reached from freeList along the chunks' next links.
RECURSIVE ReachedFrom(_, _, _)
ReachedFrom(self, current, seen) ==
    IF current \notin DOMAIN self.next \/ current \in seen THEN seen
    ELSE ReachedFrom(self, self.next[current], seen \cup {current})

C25_DeallocateRelinks ==
    [][ (lastOp'.op = "deallocate" /\ ~aborted')
          => /\ lastOp'.ptr \notin DOMAIN pools'[1].allocations
             /\ Chunks(pools[1].allocations[lastOp'.ptr])
                   \subseteq ReachedFrom(pools'[1], pools'[1].freeList, {})
      ]_vars

====
